---- MODULE Spec2Model ----
(***************************************************************************)
(* maidsafe::crux::detail::periodic_timer                                  *)
(*                                                                         *)
(* A model of the timer's state machine together with the part of the      *)
(* boost::asio reactor it talks to: the steady_timer's list of pending     *)
(* asynchronous waits, the serial delivery of their completions, and the   *)
(* call stack of handler invocations.  Time is relative: every pending     *)
(* wait carries the number of time units left until its expiry.            *)
(***************************************************************************)
EXTENDS Naturals, Sequences, FiniteSets

\* ---------------------------------------------------------------- bounds
\* Largest period (in time units) a caller passes to set_period().
MaxPeriod == 2
\* Number of distinct non-empty handler values.
NumHandlers == 2

Periods    == 0..MaxPeriod
NoHandler  == 0
Handlers   == 0..NumHandlers

\* enum state_type
States == {"stopped", "running", "executing",
           "canceling_to_stop", "canceling_to_start", "canceling_to_ff"}

Statuses == {"fired", "canceled"}

VARIABLES
    state,            \* state_type state
    period_duration,  \* duration_type period_duration
    handler,          \* handler_type handler (NoHandler = empty function)
    was_destroyed,    \* *was_destroyed, the shared liveness flag
    timer,            \* timer_type timer: its pending waits, oldest first
    stack,            \* active invocations of local_handler(), innermost last
    aborted,          \* assert(0) has terminated the process
    cancelCalled,     \* history: the last step called timer.cancel()
    lastOp,           \* history: the last of start / stop / fast_forward called
    opFrom,           \* history: the state that operation was called in
    opInside,         \* history: that operation was called by the running handler
    startDue,         \* history: while start() is the last of the three, or
                      \*          fast_forward() directly followed it: time left
                      \*          of the period of then, counted from that start()
    periodChanged     \* history: set_period() changed the period since then

progVars  == <<state, period_duration, handler, was_destroyed, timer, stack,
               aborted, cancelCalled>>
histVars  == <<lastOp, opFrom, opInside, startDue, periodChanged>>
vars == <<state, period_duration, handler, was_destroyed, timer, stack,
          aborted, cancelCalled, lastOp, opFrom, opInside, startDue, periodChanged>>

\* The object as one value, so that the member functions compose.  nstart
\* and nstop count the calls of start() and stop() made during one step.
This ==
    [state |-> state, period_duration |-> period_duration,
     handler |-> handler, was_destroyed |-> was_destroyed,
     timer |-> timer, stack |-> stack, aborted |-> aborted,
     cancelCalled |-> FALSE, nstart |-> 0, nstop |-> 0]

\* ------------------------------------------------------- the asio timer
\* One asynchronous wait: rem = time left until expiry, canceled = its
\* cancellation was requested.  preStart / preReturn are history marks: the
\* wait was already pending at the last start() call / handler return;
\* auto: the auto-restart after a handler invocation scheduled the wait.
Wait(d) ==
    [rem |-> d, canceled |-> FALSE, preStart |-> FALSE, preReturn |-> FALSE,
     auto |-> FALSE]

\* timer.cancel(): every pending wait is asked to complete with
\* operation_aborted.
timer_cancel(ws) == [i \in DOMAIN ws |-> [ws[i] EXCEPT !.canceled = TRUE]]

\* timer.expires_from_now(d) cancels the waits still pending; the
\* timer.async_wait that follows adds one wait expiring after d.
timer_expires_and_wait(ws, d) == Append(timer_cancel(ws), Wait(d))

RemoveAt(s, i) == [j \in 1..(Len(s) - 1) |-> IF j < i THEN s[j] ELSE s[j + 1]]

\* -------------------------------------------------------- member functions
\* do_start() without "state = running".
do_start_keeps_state(t) ==
    [t EXCEPT !.timer = timer_expires_and_wait(t.timer, t.period_duration)]

do_start(t) ==
    [t EXCEPT !.state = "running",
              !.timer = timer_expires_and_wait(t.timer, t.period_duration)]

\* stop() whose case "running" leaves out timer.cancel().
stop_no_cancel(t) ==
    CASE t.state = "stopped"            -> t
      [] t.state = "running"            -> [t EXCEPT !.state = "canceling_to_stop"]
      [] t.state = "executing"          -> [t EXCEPT !.state = "stopped"]
      [] t.state = "canceling_to_stop"  -> t
      [] t.state = "canceling_to_start" -> [t EXCEPT !.state = "canceling_to_stop"]
      [] t.state = "canceling_to_ff"    -> [t EXCEPT !.state = "canceling_to_stop"]

\* stop() whose case "stopped" lacks its break and falls into "running".
stop_fallthrough(t) ==
    IF t.state \in {"stopped", "running"}
    THEN [t EXCEPT !.state = "canceling_to_stop",
                   !.timer = timer_cancel(t.timer),
                   !.cancelCalled = TRUE]
    ELSE IF t.state = "canceling_to_stop" THEN t
    ELSE [t EXCEPT !.state = IF t.state = "executing" THEN "stopped"
                             ELSE "canceling_to_stop"]

stop(t) ==
    LET c == [t EXCEPT !.nstop = @ + 1] IN
    CASE t.state = "stopped"            -> c
      [] t.state = "running"            ->
            [c EXCEPT !.state = "canceling_to_stop",
                      !.timer = timer_cancel(t.timer),
                      !.cancelCalled = TRUE]
      [] t.state = "executing"          -> [c EXCEPT !.state = "stopped"]
      [] t.state = "canceling_to_stop"  -> c
      [] t.state = "canceling_to_start" -> [c EXCEPT !.state = "canceling_to_stop"]
      [] t.state = "canceling_to_ff"    -> [c EXCEPT !.state = "canceling_to_stop"]

\* start() whose case "running" calls stop() but not start() again.
start_only_stops(t) ==
    CASE t.state \in {"stopped", "executing"} -> do_start(t)
      [] t.state = "running" -> stop(t)
      [] t.state \in {"canceling_to_stop", "canceling_to_ff"} ->
            [t EXCEPT !.state = "canceling_to_start"]
      [] t.state = "canceling_to_start" -> t

\* start() that schedules at once in "running", without the cancellation.
start_keeps_wait(t) ==
    CASE t.state \in {"stopped", "running", "executing"} -> do_start(t)
      [] t.state \in {"canceling_to_stop", "canceling_to_ff"} ->
            [t EXCEPT !.state = "canceling_to_start"]
      [] t.state = "canceling_to_start" -> t

RECURSIVE start(_)

\* start() whose case canceling_to_stop calls stop() once more.
start_stops_again(t) ==
    LET c == [t EXCEPT !.nstart = @ + 1] IN
    CASE t.state = "stopped"            -> do_start(c)
      [] t.state = "running"            -> start(stop(c))
      [] t.state = "executing"          -> do_start(c)
      [] t.state = "canceling_to_stop"  -> [stop(c) EXCEPT !.state = "canceling_to_start"]
      [] t.state = "canceling_to_start" -> c
      [] t.state = "canceling_to_ff"    -> [c EXCEPT !.state = "canceling_to_start"]

start(t) ==
    LET c == [t EXCEPT !.nstart = @ + 1] IN
    CASE t.state = "stopped"            -> do_start(c)
      [] t.state = "running"            -> start(stop(c))
      [] t.state = "executing"          -> do_start(c)
      [] t.state = "canceling_to_stop"  -> [c EXCEPT !.state = "canceling_to_start"]
      [] t.state = "canceling_to_start" -> c
      [] t.state = "canceling_to_ff"    -> [c EXCEPT !.state = "canceling_to_start"]

\* set_period() that also re-arms the waits pending.
set_period_rearms(t, d) ==
    [t EXCEPT !.period_duration = d,
              !.timer = [i \in DOMAIN @ |-> [@[i] EXCEPT !.rem = d]]]

set_period(t, d) == [t EXCEPT !.period_duration = d]

\* set_handler() felt by the invocation that is running.
set_handler_live(t, h) ==
    [t EXCEPT !.handler = h,
              !.stack = [i \in DOMAIN @ |-> [@[i] EXCEPT !.local_handler = h]]]

set_handler(t, h) == [t EXCEPT !.handler = h]

\* ~periodic_timer(): stop(); *was_destroyed = true;  (The destruction of
\* the member "timer" that follows cancels its waits once more; the lambda
\* returns on the flag whatever the completion's status, so it is left out.)
destructor(t) == [stop(t) EXCEPT !.was_destroyed = TRUE]

\* The auto-restart left out.
tick_restart_never(t) == t

\* The auto-restart taken whatever the handler did to the state.
tick_restart_always(t) == start(t)

\* do_handle_tick() after local_handler() has returned (or with an empty
\* handler): the auto-restart.
tick_restart(t) ==
    IF t.state = "executing" THEN start(t) ELSE t

\* The execution step that schedules the next wait before it calls the
\* handler (a fixed-rate timer).
tick_execute_schedules_first(t) ==
    LET t1 == [t EXCEPT !.state = "executing",
                        !.timer = timer_expires_and_wait(@, t.period_duration)] IN
    IF t1.handler # NoHandler
    THEN [t1 EXCEPT !.stack = Append(@, [local_handler |-> t1.handler])]
    ELSE tick_restart(t1)

\* do_handle_tick() from "state = executing" up to the call of
\* local_handler().
tick_execute(t) ==
    LET t1 == [t EXCEPT !.state = "executing"] IN
    IF t1.handler # NoHandler
    THEN [t1 EXCEPT !.stack = Append(@, [local_handler |-> t1.handler])]
    ELSE tick_restart(t1)

\* The switch with "break" in place of "state = stopped; return".
do_handle_tick_stop_breaks(t, ndebug) ==
    IF t.state = "stopped" THEN t
    ELSE IF t.state = "canceling_to_start" THEN do_start(t)
    ELSE IF t.state = "executing" /\ ~ndebug THEN [t EXCEPT !.aborted = TRUE]
    ELSE tick_execute(t)

\* The switch with "break" in place of "do_start(); return".
do_handle_tick_start_breaks(t, ndebug) ==
    IF t.state = "stopped" THEN t
    ELSE IF t.state = "canceling_to_stop" THEN [t EXCEPT !.state = "stopped"]
    ELSE IF t.state = "executing" /\ ~ndebug THEN [t EXCEPT !.aborted = TRUE]
    ELSE tick_execute(t)

\* do_handle_tick(): the switch.  ndebug tells whether assert() is compiled
\* out (the case then breaks and the tick executes) or aborts.
do_handle_tick(t, ndebug) ==
    CASE t.state = "stopped"            -> t
      [] t.state = "running"            -> tick_execute(t)
      [] t.state = "executing"          ->
            IF ndebug THEN tick_execute(t) ELSE [t EXCEPT !.aborted = TRUE]
      [] t.state = "canceling_to_stop"  -> [t EXCEPT !.state = "stopped"]
      [] t.state = "canceling_to_start" -> do_start(t)
      [] t.state = "canceling_to_ff"    -> tick_execute(t)

\* fast_forward() that runs the tick itself instead of cancelling the wait.
fast_forward_fires(t) == tick_execute(start(t))

\* fast_forward() that runs the tick before it returns.
fast_forward_inline(t) ==
    do_handle_tick([stop(start(t)) EXCEPT !.state = "canceling_to_ff"], TRUE)

\* fast_forward() as the transition table has it: nothing in
\* canceling_to_start.
fast_forward_table(t) ==
    IF t.state = "canceling_to_start" THEN t
    ELSE [stop(start(t)) EXCEPT !.state = "canceling_to_ff"]

\* fast_forward() without its call of start().
fast_forward_no_start(t) == [stop(t) EXCEPT !.state = "canceling_to_ff"]

\* fast_forward() without "state = canceling_to_ff".
fast_forward_stops(t) == stop(start(t))

fast_forward(t) ==
    [stop(start(t)) EXCEPT !.state = "canceling_to_ff"]

\* The completion lambda that returns on operation_aborted.
wait_completion_by_status(t, i, ec, ndebug) ==
    LET t1 == [t EXCEPT !.timer = RemoveAt(@, i)] IN
    IF t1.was_destroyed \/ ec = "canceled" THEN t1 ELSE do_handle_tick(t1, ndebug)

\* The completion lambda without the check of the liveness flag.
wait_completion_unchecked(t, i, ec, ndebug) ==
    do_handle_tick([t EXCEPT !.timer = RemoveAt(@, i)], ndebug)

\* The completion lambda of async_wait: the wait i leaves the timer, the
\* error code is ignored.
wait_completion(t, i, ec, ndebug) ==
    LET t1 == [t EXCEPT !.timer = RemoveAt(@, i)] IN
    IF t1.was_destroyed THEN t1 ELSE do_handle_tick(t1, ndebug)

\* local_handler() returns into do_handle_tick().
handler_return(t) ==
    LET t1 == [t EXCEPT !.stack = SubSeq(@, 1, Len(@) - 1)] IN
    IF t1.was_destroyed THEN t1 ELSE tick_restart(t1)

\* ----------------------------------------------------------------- steps
Commit(r) ==
    /\ state' = r.state
    /\ period_duration' = r.period_duration
    /\ handler' = r.handler
    /\ was_destroyed' = r.was_destroyed
    /\ timer' = r.timer
    /\ stack' = r.stack
    /\ aborted' = r.aborted
    /\ cancelCalled' = r.cancelCalled

\* A member function may be called on a live object, from outside or by
\* the running handler.
Callable == ~was_destroyed /\ ~aborted

MarkPreStart(ws)  == [i \in DOMAIN ws |-> [ws[i] EXCEPT !.preStart = TRUE]]
MarkPreReturn(ws) == [i \in DOMAIN ws |-> [ws[i] EXCEPT !.preReturn = TRUE]]
MarkAuto(ws)      == [i \in DOMAIN ws |-> [ws[i] EXCEPT !.auto = ~ws[i].preReturn]]

Init ==
    /\ state = "stopped"
    /\ period_duration \in Periods
    /\ handler \in Handlers
    /\ was_destroyed = FALSE
    /\ timer = <<>>
    /\ stack = <<>>
    /\ aborted = FALSE
    /\ cancelCalled = FALSE
    /\ lastOp = "none"
    /\ opFrom = "stopped"
    /\ opInside = FALSE
    /\ startDue = 0
    /\ periodChanged = FALSE

Start ==
    /\ Callable
    /\ Commit(start([This EXCEPT !.timer = MarkPreStart(@)]))
    /\ lastOp' = "start"
    /\ opFrom' = state
    /\ opInside' = (stack # <<>>)
    /\ startDue' = period_duration
    /\ periodChanged' = FALSE

Stop ==
    /\ Callable
    /\ Commit(stop(This))
    /\ lastOp' = "stop"
    /\ opFrom' = state
    /\ opInside' = (stack # <<>>)
    /\ startDue' = 0
    /\ periodChanged' = FALSE

FastForward ==
    /\ Callable
    /\ Commit(fast_forward(This))
    /\ lastOp' = IF lastOp = "start" THEN "start_ff" ELSE "ff"
    /\ opFrom' = state
    /\ opInside' = (stack # <<>>)
    /\ startDue' = IF lastOp = "start" THEN startDue ELSE 0
    /\ periodChanged' = IF lastOp = "start" THEN periodChanged ELSE FALSE

SetPeriod(d) ==
    /\ Callable
    /\ Commit(set_period(This, d))
    /\ periodChanged' = IF lastOp \in {"start", "start_ff"}
                        THEN (periodChanged \/ d # period_duration)
                        ELSE FALSE
    /\ UNCHANGED <<lastOp, opFrom, opInside, startDue>>

SetHandler(h) ==
    /\ Callable
    /\ Commit(set_handler(This, h))
    /\ UNCHANGED histVars

Destroy ==
    /\ Callable
    /\ Commit(destructor(This))
    /\ UNCHANGED histVars

\* The reactor delivers the completion of the pending wait i.  It does so
\* only between handlers (never inline), "fired" once the wait has expired,
\* "canceled" once its cancellation was requested.
Deliver(i, ec, ndebug) ==
    /\ ~aborted
    /\ stack = <<>>
    /\ i \in DOMAIN timer
    /\ \/ ec = "fired" /\ timer[i].rem = 0
       \/ ec = "canceled" /\ timer[i].canceled
    /\ Commit(wait_completion(This, i, ec, ndebug))
    /\ UNCHANGED histVars

\* The running handler returns.
HandlerReturn ==
    /\ ~aborted
    /\ stack # <<>>
    /\ Commit([handler_return([This EXCEPT !.timer = MarkPreReturn(@)])
                  EXCEPT !.timer = MarkAuto(@)])
    /\ UNCHANGED histVars

\* One unit of time passes (also while a handler runs).
Tick ==
    /\ ~aborted
    /\ timer' = [i \in DOMAIN timer |->
                   [timer[i] EXCEPT !.rem = IF @ > 0 THEN @ - 1 ELSE 0]]
    /\ startDue' = IF startDue > 0 THEN startDue - 1 ELSE 0
    /\ cancelCalled' = FALSE
    /\ UNCHANGED <<state, period_duration, handler, was_destroyed, stack, aborted,
                   lastOp, opFrom, opInside, periodChanged>>

Next ==
    \/ Start
    \/ Stop
    \/ FastForward
    \/ \E d \in Periods : SetPeriod(d)
    \/ \E h \in Handlers : SetHandler(h)
    \/ Destroy
    \/ \E i \in 1..Len(timer), ec \in Statuses, ndebug \in BOOLEAN : Deliver(i, ec, ndebug)
    \/ HandlerReturn
    \/ Tick

Spec == Init /\ [][Next]_vars

\* The reactor delivers every completion, handlers return, time passes.
Fairness ==
    /\ WF_vars(\E i \in 1..Len(timer), ec \in Statuses, ndebug \in BOOLEAN : Deliver(i, ec, ndebug))
    /\ WF_vars(HandlerReturn)
    /\ WF_vars(Tick)

FairSpec == Spec /\ Fairness

TypeOK ==
    /\ state \in States
    /\ period_duration \in Periods
    /\ handler \in Handlers
    /\ was_destroyed \in BOOLEAN
    /\ aborted \in BOOLEAN
    /\ \A i \in DOMAIN timer : timer[i].rem \in Periods
    /\ \A i \in DOMAIN stack : stack[i].local_handler \in 1..NumHandlers
    /\ lastOp \in {"none", "start", "stop", "ff", "start_ff"}
    /\ opFrom \in States
    /\ startDue \in Periods

\* ------------------------------------------------------------ properties
\* A step in which an invocation of the handler begins.
Begins == Len(stack') > Len(stack)

\* The step delivers the completion of the pending wait i.
Delivers(i) == \E ec \in Statuses, ndebug \in BOOLEAN : Deliver(i, ec, ndebug)

DeliverStep ==
    \E i \in 1..Len(timer), ec \in Statuses, ndebug \in BOOLEAN : Deliver(i, ec, ndebug)

\* The pending waits as the reactor sees them, without the history marks.
Pending(ws) == [i \in DOMAIN ws |-> <<ws[i].rem, ws[i].canceled>>]

\* C1: in every reachable state at most one wait scheduled with the reactor
\* is still undelivered (so do_start() never runs while an earlier wait is
\* pending, which would leave two).
C1_SinglePendingWakeup == Len(timer) <= 1

\* start() was called in "running": the old wait is still the only one.
C1_Witness ==
    /\ lastOp = "start" /\ opFrom = "running"
    /\ state = "canceling_to_start" /\ Len(timer) = 1 /\ timer[1].canceled

\* C2: no reachable state has two invocations of the handler active,
\* whatever the handler itself calls.
C2_NonReentrant == Len(stack) <= 1

\* The running handler has called fast_forward() on its own timer.
C2_Witness ==
    /\ Len(stack) = 1 /\ opInside /\ lastOp = "ff"
    /\ state = "canceling_to_ff"

\* C3: start(), stop() and fast_forward() return without an invocation of
\* the handler having begun inside the call; an invocation begins only in a
\* reactor dispatch, and the one fast_forward() causes begins when the
\* completion of the cancelled wait is delivered.
C3_NoSynchronousInvocation ==
    /\ [][(Start \/ Stop \/ FastForward) => stack' = stack]_vars
    /\ [][Begins => DeliverStep /\ stack = <<>>]_vars
    /\ [][\A i \in DOMAIN timer :
             Begins /\ Delivers(i) /\ state = "canceling_to_ff" => timer[i].canceled]_vars

\* fast_forward() has returned from outside any handler and nothing runs.
C3_Witness ==
    /\ lastOp = "ff" /\ ~opInside /\ opFrom = "stopped"
    /\ state = "canceling_to_ff" /\ stack = <<>> /\ handler # NoHandler
    /\ Len(timer) = 1

\* C4: after stop() no invocation of the handler begins until start() or
\* fast_forward() is called, also when the pending wait completes as
\* "fired"; after stop() in "running" the state is canceling_to_stop while
\* the wait is pending and stopped once its completion was delivered.
C4_StopHolds ==
    /\ [][Begins => lastOp # "stop"]_vars
    /\ [](lastOp = "stop" /\ opFrom = "running" /\ ~was_destroyed =>
            IF timer = <<>> THEN state = "stopped"
            ELSE state = "canceling_to_stop")

\* stop() was called in "running", the wait expired all the same and its
\* completion was delivered: the timer is stopped and no handler runs.
C4_Witness ==
    /\ lastOp = "stop" /\ opFrom = "running" /\ ~opInside
    /\ state = "stopped" /\ timer = <<>> /\ stack = <<>>
    /\ handler # NoHandler /\ ~was_destroyed

\* C5: once the liveness flag is set no step changes the timer's state,
\* period or handler, schedules a wait or begins an invocation (a
\* completion delivered afterwards only leaves the reactor; the tick whose
\* handler destroyed the timer returns without the auto-restart), and every
\* wait still pending has had its cancellation requested.
C5_DestroyedIsInert ==
    /\ [][was_destroyed =>
            /\ state' = state
            /\ period_duration' = period_duration
            /\ handler' = handler
            /\ was_destroyed'
            /\ Len(timer') <= Len(timer)
            /\ Len(stack') <= Len(stack)]_vars
    /\ [](was_destroyed => \A i \in DOMAIN timer : timer[i].canceled)

\* The timer was destroyed with a wait pending and that wait's completion
\* has since been delivered: the state is the one the destructor left.
C5_Witness ==
    /\ was_destroyed /\ state = "canceling_to_stop"
    /\ timer = <<>> /\ stack = <<>>

PublicOp ==
    \/ Start \/ Stop \/ FastForward \/ Destroy
    \/ \E d \in Periods : SetPeriod(d)
    \/ \E h \in Handlers : SetHandler(h)

\* C7: when the last public operation ever called is a start() from outside
\* the handler, on a live timer that has a handler, then with every
\* completion delivered the handler is invoked again and again, each time
\* for a wait scheduled after the call and after the previous invocation
\* returned.
C7_PeriodicLiveness ==
    /\ (/\ <>[][~PublicOp]_vars
        /\ <>[](lastOp = "start" /\ ~opInside /\ handler # NoHandler /\ ~was_destroyed))
          => ([]<>(stack # <<>>) /\ []<>(stack = <<>>))
    /\ [][\A i \in DOMAIN timer :
             Begins /\ Delivers(i) /\ lastOp = "start" /\ ~opInside =>
                 ~timer[i].preReturn /\ ~timer[i].preStart]_vars

\* An invocation has returned, the auto-restart has scheduled a wait after
\* that, and this wait has expired: its completion runs the handler again.
C7_Witness ==
    /\ lastOp = "start" /\ ~opInside /\ opFrom = "stopped"
    /\ stack = <<>> /\ state = "running" /\ handler # NoHandler
    /\ Len(timer) = 1 /\ timer[1].auto /\ ~timer[1].preReturn
    /\ timer[1].rem = 0 /\ period_duration > 0 /\ ~periodChanged

\* C8: after start() directly followed by fast_forward() the one pending
\* wait has its cancellation requested, so that its completion can be
\* delivered before the period has passed; that delivery is eventually made
\* and runs the handler, once: when that invocation returns none is active
\* and the auto-restart has only scheduled a wait.
C8_StartThenFastForward ==
    /\ [][FastForward /\ lastOp = "start" =>
             state' = "canceling_to_ff" /\ stack' = stack]_vars
    /\ (lastOp = "start_ff" /\ state = "canceling_to_ff" /\ stack = <<>>
            /\ handler # NoHandler /\ ~was_destroyed)
         ~> (stack # <<>> \/ lastOp # "start_ff" \/ handler = NoHandler \/ was_destroyed)
    /\ [](lastOp = "start_ff" /\ state = "canceling_to_ff" /\ ~was_destroyed =>
             Len(timer) = 1 /\ timer[1].canceled)
    /\ [][\A i \in DOMAIN timer :
             Begins /\ Delivers(i) /\ lastOp = "start_ff" /\ state = "canceling_to_ff" =>
                 timer[i].canceled /\ Len(stack') = 1]_vars
    /\ [][HandlerReturn /\ lastOp = "start_ff" /\ state = "executing" /\ ~was_destroyed =>
             /\ stack' = <<>> /\ state' = "running"
             /\ Pending(timer') = <<<<period_duration, FALSE>>>>]_vars

\* The handler runs although less than the period has passed since the
\* start() call.
C8_Witness ==
    /\ lastOp = "start_ff" /\ ~opInside /\ opFrom = "running"
    /\ Len(stack) = 1 /\ state = "executing" /\ timer = <<>>
    /\ startDue > 0 /\ ~periodChanged

\* C9: when an invocation of the handler returns and the timer is alive,
\* the tick calls start() exactly when the state is still "executing" (a
\* wait of one period is scheduled, state "running"); otherwise it leaves
\* state and waits as the handler left them.  stop() called by the handler
\* in "executing" gives "stopped" with no wait pending, the tick keeps
\* that, and no invocation begins while that stop() is the last call.
C9_AutoRestartRule ==
    /\ [][HandlerReturn /\ ~was_destroyed =>
             IF state = "executing"
             THEN /\ state' = "running"
                  /\ Pending(timer') = Append(Pending(timer), <<period_duration, FALSE>>)
             ELSE /\ state' = state
                  /\ Pending(timer') = Pending(timer)]_vars
    /\ [][Stop /\ stack # <<>> /\ state = "executing" =>
             state' = "stopped" /\ timer' = <<>>]_vars
    /\ [][HandlerReturn /\ state = "stopped" /\ ~was_destroyed =>
             state' = "stopped" /\ timer' = <<>> /\ stack' = <<>>]_vars
    /\ [][Begins => ~(lastOp = "stop" /\ opFrom = "executing")]_vars

\* The handler called stop() and has returned: stopped, nothing pending.
C9_Witness ==
    /\ lastOp = "stop" /\ opFrom = "executing" /\ opInside
    /\ stack = <<>> /\ state = "stopped" /\ timer = <<>> /\ ~was_destroyed

\* C10: stop() called in "stopped" leaves the state "stopped", no wait
\* pending, requests no cancellation and leaves period and handler alone.
C10_StopWhenStoppedIsNoOp ==
    [][Stop /\ state = "stopped" =>
            /\ state' = "stopped"
            /\ timer = <<>> /\ timer' = <<>>
            /\ ~cancelCalled'
            /\ period_duration' = period_duration
            /\ handler' = handler
            /\ was_destroyed' = was_destroyed
            /\ stack' = stack]_vars

\* stop() was called on a stopped timer.
C10_Witness ==
    /\ lastOp = "stop" /\ opFrom = "stopped"
    /\ state = "stopped" /\ timer = <<>>

\* C11: in the auto-restart cycle no wait is pending while the handler of a
\* firing runs in "executing"; the wait of the next firing is scheduled only
\* when that invocation returns, and it expires one period, as stored at the
\* return, after the return, however long the handler took.
C11_FixedDelay ==
    /\ [](state = "executing" /\ ~was_destroyed => timer = <<>>)
    /\ [][HandlerReturn /\ state = "executing" /\ ~was_destroyed =>
             /\ timer = <<>>
             /\ Len(timer') = 1
             /\ timer'[1].rem = period_duration /\ ~timer'[1].canceled
             /\ timer'[1].auto
             /\ state' = "running"]_vars
    /\ [][Tick /\ stack # <<>> /\ state = "executing" => timer' = <<>>]_vars

\* The handler has returned and the auto-restart has just scheduled the
\* wait of the next firing with the full period.
C11_Witness ==
    /\ lastOp = "start" /\ opFrom = "stopped" /\ ~opInside
    /\ stack = <<>> /\ state = "running" /\ startDue = 0
    /\ Len(timer) = 1 /\ timer[1].auto
    /\ period_duration = MaxPeriod /\ timer[1].rem = MaxPeriod /\ ~periodChanged

\* C12: the completion of a wait never enters do_handle_tick() of a live
\* timer in state "executing", so assert(0) is not reached, whatever the
\* public operations called from outside or by the handler.
C12_FatalBranchUnreachable ==
    /\ [][\A i \in DOMAIN timer :
             Delivers(i) /\ ~was_destroyed => state # "executing"]_vars
    /\ [](~aborted)

\* The handler has called start() on its own timer and the new wait has
\* expired while the handler still runs: its completion waits for the
\* return and then finds the state "running".
C12_Witness ==
    /\ Len(stack) = 1 /\ opInside /\ lastOp = "start" /\ opFrom = "executing"
    /\ state = "running" /\ Len(timer) = 1 /\ timer[1].rem = 0
    /\ ~was_destroyed

\* C13: fast_forward() called in any state returns with the state
\* canceling_to_ff and exactly one wait pending whose cancellation was
\* requested; called in canceling_to_ff it changes neither the state nor the
\* pending wait and calls neither async_wait nor timer.cancel().
C13_FastForwardResult ==
    /\ [][FastForward =>
             /\ state' = "canceling_to_ff"
             /\ Len(timer') = 1 /\ timer'[1].canceled]_vars
    /\ [][FastForward /\ state = "canceling_to_ff" =>
             timer' = timer /\ ~cancelCalled']_vars

\* fast_forward() was called when the state was canceling_to_ff already.
C13_Witness ==
    /\ lastOp = "ff" /\ opFrom = "canceling_to_ff"
    /\ state = "canceling_to_ff" /\ Len(timer) = 1 /\ timer[1].canceled
    /\ ~cancelCalled /\ ~was_destroyed

\* C14: start() called in "running" calls timer.cancel() and returns in
\* canceling_to_start with the old wait, now cancelled, as the only one;
\* the new wait is scheduled, state "running", when the completion of the
\* old one is delivered, and that delivery begins no handler invocation.
C14_StartWhenRunning ==
    /\ [][Start /\ state = "running" =>
             /\ state' = "canceling_to_start"
             /\ cancelCalled'
             /\ Len(timer') = Len(timer)
             /\ \A i \in DOMAIN timer :
                   timer'[i].canceled /\ timer'[i].rem = timer[i].rem
             /\ stack' = stack]_vars
    /\ [][\A i \in DOMAIN timer :
             Delivers(i) /\ state = "canceling_to_start" /\ ~was_destroyed =>
                 /\ state' = "running"
                 /\ Pending(timer') = <<<<period_duration, FALSE>>>>
                 /\ stack' = stack]_vars
    /\ [](state = "canceling_to_start" /\ ~was_destroyed =>
             Len(timer) = 1 /\ timer[1].canceled)

\* start() was called in "running" and the completion of the cancelled wait
\* has since scheduled the new wait without running the handler.
C14_Witness ==
    /\ lastOp = "start" /\ opFrom = "running" /\ ~opInside
    /\ state = "running" /\ stack = <<>> /\ handler # NoHandler
    /\ Len(timer) = 1 /\ ~timer[1].preStart /\ ~timer[1].auto
    /\ ~timer[1].canceled /\ timer[1].rem > 0

\* C15 as stated: fast_forward() called in canceling_to_start leaves the
\* state canceling_to_start.
C15_FastForwardKeepsCancelingToStart ==
    [][FastForward /\ state = "canceling_to_start" =>
            state' = "canceling_to_start"]_vars

\* C15: fast_forward() called in canceling_to_start leaves the state
\* canceling_to_ff with the pending cancelled wait unchanged, and the
\* completion of that wait executes the tick: it runs the handler when there
\* is one, else it re-schedules at once.
C15_FastForwardFromCancelingToStart ==
    /\ [][FastForward /\ state = "canceling_to_start" =>
             /\ state' = "canceling_to_ff"
             /\ timer' = timer /\ ~cancelCalled']_vars
    /\ [][\A i \in DOMAIN timer :
             Delivers(i) /\ state = "canceling_to_ff" /\ ~was_destroyed =>
                 IF handler # NoHandler
                 THEN Begins /\ state' = "executing" /\ timer' = <<>>
                 ELSE state' = "running" /\ stack' = stack]_vars

\* fast_forward() was called in canceling_to_start and the completion of
\* the cancelled wait has run the handler.
C15_Witness ==
    /\ lastOp \in {"ff", "start_ff"} /\ opFrom = "canceling_to_start" /\ ~opInside
    /\ state = "executing" /\ Len(stack) = 1 /\ timer = <<>>

\* C16: set_period() changes the stored period and nothing else (state,
\* handler, running invocations and the expiry of a pending wait stay), and
\* every wait scheduled afterwards, by start(), by the completion of a
\* cancelled wait in canceling_to_start or by the auto-restart, expires
\* after the period stored when it is scheduled.
C16_SetPeriodFrame ==
    /\ [][\A d \in Periods : SetPeriod(d) =>
             /\ period_duration' = d
             /\ state' = state /\ handler' = handler
             /\ timer' = timer /\ stack' = stack
             /\ was_destroyed' = was_destroyed /\ ~cancelCalled']_vars
    /\ [][(Start \/ FastForward \/ HandlerReturn) /\ Len(timer') > Len(timer) =>
             timer'[Len(timer')].rem = period_duration]_vars
    /\ [][DeliverStep /\ Len(timer') >= Len(timer) =>
             timer'[Len(timer')].rem = period_duration]_vars

\* set_period() has shortened the period while a wait was pending: the wait
\* keeps an expiry later than the new period allows.
C16_Witness ==
    /\ periodChanged /\ lastOp = "start" /\ state = "running"
    /\ Len(timer) = 1 /\ ~timer[1].canceled
    /\ timer[1].rem > period_duration /\ ~was_destroyed

\* C17: an invocation that begins runs the handler value stored at that
\* moment; set_handler() replaces the stored value and leaves the running
\* invocations, the state and the pending waits as they are, so that the
\* next tick runs the new value.
C17_HandlerCapturedAtTick ==
    /\ [][Begins =>
             /\ stack'[Len(stack')].local_handler = handler
             /\ SubSeq(stack', 1, Len(stack)) = stack]_vars
    /\ [][\A h \in Handlers : SetHandler(h) =>
             /\ handler' = h
             /\ stack' = stack /\ state' = state /\ timer' = timer
             /\ period_duration' = period_duration]_vars
    /\ [][HandlerReturn => handler' = handler]_vars

\* The running invocation has replaced the handler by another one: it still
\* runs the value the tick captured.
C17_Witness ==
    /\ Len(stack) = 1 /\ handler # NoHandler
    /\ stack[1].local_handler # handler
    /\ state = "executing" /\ ~was_destroyed

\* C18: on a live timer the effect of the completion of a pending wait is
\* the same for the status "fired" and the status "canceled": same next
\* state, same waits scheduled, same decision to run the handler.  A
\* "fired" completion in canceling_to_stop only sets "stopped"; a
\* "canceled" one in canceling_to_ff executes the tick.
C18_StatusIgnored ==
    /\ [](\A i \in DOMAIN timer, ndebug \in BOOLEAN :
             wait_completion(This, i, "fired", ndebug)
                 = wait_completion(This, i, "canceled", ndebug))
    /\ [][\A i \in DOMAIN timer, ndebug \in BOOLEAN :
             Deliver(i, "fired", ndebug) /\ state = "canceling_to_stop" /\ ~was_destroyed =>
                 state' = "stopped" /\ stack' = stack /\ timer' = <<>>]_vars
    /\ [][\A i \in DOMAIN timer, ndebug \in BOOLEAN :
             Deliver(i, "canceled", ndebug) /\ state = "canceling_to_ff"
                     /\ ~was_destroyed /\ handler # NoHandler =>
                 state' = "executing" /\ Begins]_vars

\* The pending wait has expired and was cancelled as well: its completion
\* may arrive with either status.
C18_Witness ==
    /\ state = "canceling_to_stop" /\ stack = <<>> /\ ~was_destroyed
    /\ Len(timer) = 1 /\ timer[1].rem = 0 /\ timer[1].canceled
    /\ lastOp = "stop" /\ opFrom = "running"

\* C19: the composed operations end after a bounded number of calls in
\* every reachable state of a live timer: start() called in "running" makes
\* one nested stop() and one nested start() and no more, in any other state
\* none; fast_forward() makes its one start() and one stop() and at most
\* that one level of nesting.
C19_BoundedRecursion ==
    Callable =>
        LET s == start(This)
            f == fast_forward(This) IN
        /\ IF state = "running"
           THEN s.nstart = 2 /\ s.nstop = 1 /\ f.nstart = 2 /\ f.nstop = 2
           ELSE s.nstart = 1 /\ s.nstop = 0 /\ f.nstart = 1 /\ f.nstop = 1
        /\ s.state \in {"running", "canceling_to_start"}
        /\ f.state = "canceling_to_ff"

\* fast_forward() can be called in "running", by the handler that has just
\* called start(): the call nests start() -> stop(), start() and then stop().
C19_Witness ==
    /\ state = "running" /\ Callable /\ Len(stack) = 1 /\ opInside
    /\ lastOp = "start" /\ opFrom = "stopped"
    /\ fast_forward(This).nstart = 2 /\ fast_forward(This).nstop = 2

\* C20: on a live timer no wait is pending exactly when the state is
\* "stopped" or "executing", exactly one is pending in "running" and in the
\* three canceling states, and its cancellation was requested exactly in
\* the canceling states; so no completion finds a live timer "stopped" and
\* stop() in "executing" leaves no wait behind.
C20_StateWaitCorrespondence ==
    /\ [](~was_destroyed =>
            /\ (timer = <<>>) <=> (state \in {"stopped", "executing"})
            /\ state \in {"running", "canceling_to_stop", "canceling_to_start",
                          "canceling_to_ff"} => Len(timer) = 1
            /\ \A i \in DOMAIN timer :
                  timer[i].canceled <=> (state \in {"canceling_to_stop",
                                          "canceling_to_start", "canceling_to_ff"}))
    /\ [][\A i \in DOMAIN timer :
             Delivers(i) /\ ~was_destroyed => state # "stopped"]_vars
    /\ [][Stop /\ state = "executing" => timer = <<>> /\ timer' = <<>>]_vars

\* The running handler has called stop() in "executing": stopped with the
\* handler still active and nothing pending.
C20_Witness ==
    /\ lastOp = "stop" /\ opFrom = "executing" /\ opInside
    /\ Len(stack) = 1 /\ state = "stopped" /\ timer = <<>> /\ ~was_destroyed

====
